---- MODULE Spec2Model ----
(***************************************************************************)
(* The download-verify-extract-install pipelines of build-tools:           *)
(*   downloadAndPrepareGoma  (src/src/utils/goma.js, lines 45-129)         *)
(*   ensureXcode             (src/src/utils/goma.js, lines 412-497)        *)
(* modelled as one single-threaded command-line process working on a       *)
(* filesystem.  Every action is the stretch of a handler between two       *)
(* calls of an external tool; pc is the handler's position, and while a    *)
(* handler runs no other action is enabled.  The variables under "disk"    *)
(* survive the process, the others are the locals of the running handler.  *)
(*                                                                         *)
(* Text is a sequence of one-character strings, so that trimming and       *)
(* case folding are computed.  The 64-digit SHA-256 and 32-digit MD5       *)
(* constants of the source are written with their first eight digits,      *)
(* which are pairwise different.                                           *)
(***************************************************************************)
EXTENDS Integers, Sequences, FiniteSets, TLC

VARIABLES
    \* the process
    pc,            \* position of the running handler, "idle" before the first run
    steps,         \* the calls with an effect made so far by this run, in order
    outcome,       \* "none" | "running" | "returned" | "threw" | "exited"
    exitCode,      \* the code the process exited with (0 while it has not)
    result,        \* what the handler returned (no text: undefined, or nothing yet)
    message,       \* the error the run ended with: fatal's message or the exception
    downloadStatus,\* <<exit status>> of download.js in this run, <<>> before it ran
    extractStatus, \* <<exit status>> of tar or unzip in this run, <<>> before it ran
    recorded,      \* the sha the call before this one wrote to the marker, if this
                   \* call is downloadAndPrepareGoma and follows it at once
    \* module state and inputs of downloadAndPrepareGoma
    gomaPlatform,  \* goma.js:18-25, computed when the module is loaded
    config,        \* the config argument
    redownload,    \* process.env.ELECTRON_FORGE_GOMA_REDOWNLOAD
    sha,           \* local sha (goma.js:57-60)
    shaFileRead,   \* what line 62-63 found at gomaShaFile
    hash,          \* local hash (goma.js:101) / newHash (goma.js:455)
    \* disk, goma
    thirdParty,    \* path.dirname(gomaDir) exists
    gomaGnFile,    \* third_party/goma.gn
    gomaDir,       \* third_party/goma
    gomaShaFile,   \* third_party/goma/.sha
    tmpDownload,   \* third_party/<filename>
    \* locals and disk, Xcode
    expected,      \* local expected (goma.js:413)
    XcodeDir,      \* third_party/Xcode exists
    XcodePath,     \* third_party/Xcode/Xcode.app
    versioned,     \* third_party/Xcode/Xcode-<v>.app, by <v>
    XcodeZip,      \* third_party/Xcode/Xcode.zip
    unzipPath,     \* third_party/Xcode/tmp_unzip
    \* expectedXcodeVersion, run on its own
    yamls,         \* the three candidate config files, in the order of lines 345-362
    ventura,       \* isVentura (goma.js:365-368)
    versionFound,  \* local version (goma.js:343) once the files were gone through
    resolved,      \* <<what expectedXcodeVersion returned>>, <<>> before it ran
    readLog,       \* the candidates whose content was read, in order
    \* the command `e build` (unnamed/part_001)
    cmd,           \* position of the command, "none" before it starts
    trace,         \* the calls the command has made so far, in order
    options,       \* the command line and the configuration of this run
    cmdExit,       \* <<exit code of the process>>, <<>> while it runs
    wrappedStatus, \* <<status>> of the wrapped tool that failed, if one did
    ninjaOpts,     \* <<opts passed to ninja>> (part_001:56-60), <<>> before
    buildfile,     \* out/<name>/build.ninja exists
    argsFile,      \* out/<name>/args.gn
    gate,          \* <<what ensureGNGen found and did>>, <<>> before it ran
    gomaLoginFile, \* third_party/goma/last-known-login
    now,           \* Date.now()
    authenticated  \* <<what gomaIsAuthenticated found and returned>>

procVars  == <<pc, steps, outcome, exitCode, result, message, downloadStatus,
               extractStatus, recorded>>
gomaLocal == <<config, redownload, sha, shaFileRead, hash>>
gomaDisk  == <<thirdParty, gomaGnFile, gomaDir, gomaShaFile, tmpDownload>>
xcodeDisk == <<XcodeDir, XcodePath, versioned, XcodeZip, unzipPath>>
resolverVars == <<yamls, ventura, versionFound, resolved, readLog>>
installVars == <<procVars, gomaPlatform, gomaLocal, gomaDisk, expected, xcodeDisk>>
buildVars == <<cmd, trace, options, cmdExit, wrappedStatus, ninjaOpts, buildfile,
               argsFile, gate, gomaLoginFile, now, authenticated>>
vars == <<installVars, resolverVars, buildVars>>

----------------------------------------------------------------------------
(* Text *)

Whitespace == {" ", "\t", "\n", "\r"}

RECURSIVE TrimStart(_)
TrimStart(s) ==
    IF s # <<>> /\ Head(s) \in Whitespace THEN TrimStart(Tail(s)) ELSE s

RECURSIVE TrimEnd(_)
TrimEnd(s) ==
    IF s # <<>> /\ s[Len(s)] \in Whitespace
    THEN TrimEnd(SubSeq(s, 1, Len(s) - 1))
    ELSE s

\* String.prototype.trim
Trim(s) == TrimEnd(TrimStart(s))

UpperHex == [c \in {"A", "B", "C", "D", "E", "F"} |->
               CASE c = "A" -> "a" [] c = "B" -> "b" [] c = "C" -> "c"
                 [] c = "D" -> "d" [] c = "E" -> "e" [] c = "F" -> "f"]

\* String.prototype.toLowerCase on the alphabet of hex digests
ToLowerCase(s) ==
    [i \in 1..Len(s) |-> IF s[i] \in DOMAIN UpperHex THEN UpperHex[s[i]] ELSE s[i]]

EqualsIgnoreCase(a, b) == ToLowerCase(a) = ToLowerCase(b)

----------------------------------------------------------------------------
(* Files *)

NoText == <<>>
NoFile == [exists |-> FALSE, data |-> NoText]
TextFile(t) == [exists |-> TRUE, data |-> t]

\* the bytes of a downloaded file: which object they are
NoBytes == [kind |-> "none", of |-> <<>>]
EmptyBytes == [kind |-> "empty", of |-> <<>>]
NoArchive == [exists |-> FALSE, data |-> NoBytes]
Archive(b) == [exists |-> TRUE, data |-> b]

\* a directory of third_party/: absent, or holding part or all of a bundle
NoDir == [exists |-> FALSE, ctl |-> FALSE, complete |-> FALSE]

----------------------------------------------------------------------------
(* goma.js: module constants *)

\* goma.js:27-33
GOMA_PLATFORM_SHAS ==
    [p \in {"darwin", "darwin-arm64", "linux", "linux-arm64", "win32"} |->
       CASE p = "darwin"       -> <<"a","d","f","8","a","0","1","f">>
         [] p = "darwin-arm64" -> <<"8","1","3","4","7","e","9","5">>
         [] p = "linux"        -> <<"f","9","4","f","7","8","4","f">>
         [] p = "linux-arm64"  -> <<"d","0","4","7","4","6","1","0">>
         [] p = "win32"        -> <<"d","f","a","5","b","1","2","d">>]

\* goma.js:35-41
MSFT_GOMA_PLATFORM_SHAS ==
    [p \in {"darwin", "darwin-arm64", "linux", "linux-arm64", "win32"} |->
       CASE p = "darwin"       -> <<"d","a","c","2","8","8","1","c">>
         [] p = "darwin-arm64" -> <<"d","8","0","0","6","8","3","0">>
         [] p = "linux"        -> <<"e","e","0","1","9","9","5","4">>
         [] p = "linux-arm64"  -> <<"4","8","6","b","d","5","d","a">>
         [] p = "win32"        -> <<"a","5","4","d","d","1","f","5">>]

\* goma.js:43
isSupportedPlatform == gomaPlatform \in DOMAIN GOMA_PLATFORM_SHAS

\* goma.js:68-74, a file name as <<stem, extension>>
filename ==
    CASE gomaPlatform = "darwin"       -> <<"goma-mac", ".tgz">>
      [] gomaPlatform = "darwin-arm64" -> <<"goma-mac-arm64", ".tgz">>
      [] gomaPlatform = "linux"        -> <<"goma-linux", ".tgz">>
      [] gomaPlatform = "linux-arm64"  -> <<"goma-linux-arm64", ".tgz">>
      [] gomaPlatform = "win32"        -> <<"goma-win", ".zip">>

\* goma.js:116, filename.endsWith('.tgz')
EndsWithTgz(f) == f[2] = ".tgz"

\* goma.js:52, the two lines of goma.gn
gomaGnContents == <<"goma_dir = \"third_party/goma\"", "use_goma = true">>

\* the config argument: undefined, or an object with its gomaSource
NoConfig == [defined |-> FALSE, gomaSource |-> ""]
Configs == {[defined |-> TRUE, gomaSource |-> ""],
            [defined |-> TRUE, gomaSource |-> "msft"]}

\* an environment variable: unset, set to the empty string, or set to "1"
EnvUnset == [set |-> FALSE, value |-> ""]
EnvValues == {EnvUnset, [set |-> TRUE, value |-> ""], [set |-> TRUE, value |-> "1"]}

\* JavaScript's truth value of process.env.X (undefined and '' are falsy)
Truthy(e) == e.set /\ e.value # ""

\* goma.js:57-60
DesiredSha(cfg) ==
    IF cfg.defined /\ cfg.gomaSource = "msft"
    THEN MSFT_GOMA_PLATFORM_SHAS[gomaPlatform]
    ELSE GOMA_PLATFORM_SHAS[gomaPlatform]

\* the object the CDN serves at <gomaBaseURL>/<sha>/<filename> (goma.js:88):
\* the bundle of one source for one platform
GomaBundle(cfg) ==
    [kind |-> "goma",
     of |-> <<IF cfg.defined /\ cfg.gomaSource = "msft" THEN "msft" ELSE "electron",
              gomaPlatform>>]

\* goma.js:101-104: the lower-case hex SHA-256 of a file's bytes.  A published
\* bundle hashes to its entry of the tables; e3b0c442 is the digest of no bytes.
SHA256Hex(b) ==
    IF b.kind = "goma"
    THEN IF b.of[1] = "msft"
         THEN MSFT_GOMA_PLATFORM_SHAS[b.of[2]]
         ELSE GOMA_PLATFORM_SHAS[b.of[2]]
    ELSE <<"e","3","b","0","c","4","4","2">>

\* goma.js:61-65, the condition of the early return
IsInstalledTrimmed(file, want, env) ==
    file.exists /\ Trim(file.data) = want /\ ~Truthy(env)

IsInstalledNoEnv(file, want, env) ==
    file.exists /\ file.data = want

IsInstalled(file, want, env) ==
    file.exists /\ file.data = want /\ ~Truthy(env)

\* goma.js:97 and goma.js:450, status !== 0
DownloadFailedOnlyOne(status) == status = 1

DownloadFailed(status) == status # 0

\* goma.js:105, hash !== sha
HashMismatchNever(h, s) == FALSE

HashMismatch(h, s) == h # s

\* goma.js:120, result.status !== 0
ExtractFailedNever(status) == FALSE

ExtractFailed(status) == status # 0

\* goma.js:127, what writeFileSync puts at gomaShaFile
MarkerWithNewline(s) == TextFile(s \o <<"\n">>)

Marker(s) == TextFile(s)

\* utils/logging fatal(msg, code = 1): logs and ends the process with the code
fatal == 1

----------------------------------------------------------------------------
(* downloadAndPrepareGoma *)

Idle == pc \in {"idle", "done"}

FullDir == [exists |-> TRUE, ctl |-> TRUE, complete |-> TRUE]

\* what a download can leave at its destination, by exit status
Downloads(genuine) ==
    {[status |-> 0, file |-> Archive(genuine)],
     [status |-> 0, file |-> Archive(EmptyBytes)],
     [status |-> 1, file |-> NoArchive],
     [status |-> 1, file |-> Archive(EmptyBytes)],
     [status |-> 2, file |-> Archive(genuine)]}

\* what an extraction can leave at third_party/goma, by exit status
GomaExtractions ==
    {[status |-> 0, dir |-> FullDir],
     [status |-> 2, dir |-> NoDir],
     [status |-> 2, dir |-> [exists |-> TRUE, ctl |-> FALSE, complete |-> FALSE]],
     [status |-> 2, dir |-> [exists |-> TRUE, ctl |-> TRUE, complete |-> FALSE]]}

\* the handler returns v
Return(v) ==
    /\ pc' = "done"
    /\ outcome' = "returned"
    /\ exitCode' = 0
    /\ result' = v
    /\ message' = ""

\* process.exit(code) after logging msg
Exit(code, msg) ==
    /\ pc' = "done"
    /\ outcome' = "exited"
    /\ exitCode' = code
    /\ result' = NoText
    /\ message' = msg

\* an exception the handler does not catch: the command ends with code 1
\* (unnamed/part_001:122-124)
Throw(msg) ==
    /\ pc' = "done"
    /\ outcome' = "threw"
    /\ exitCode' = 1
    /\ result' = NoText
    /\ message' = msg

\* the handler goes on to the call at l
Goto(l) ==
    /\ pc' = l
    /\ outcome' = "running"
    /\ exitCode' = 0
    /\ result' = NoText
    /\ message' = ""

\* the sha the run that just ended wrote to the marker
JustRecorded ==
    IF pc = "done" /\ steps # <<>> /\ steps[Len(steps)] = "writeSha" THEN sha ELSE NoText

\* goma.js:45-66
GomaBegin(cfg, env) ==
    /\ Idle
    /\ config' = cfg
    /\ redownload' = env
    /\ hash' = NoText
    /\ expected' = NoText
    /\ downloadStatus' = <<>>
    /\ extractStatus' = <<>>
    /\ recorded' = JustRecorded
    /\ UNCHANGED <<gomaPlatform, xcodeDisk, gomaDir, gomaShaFile, tmpDownload>>
    /\ IF ~isSupportedPlatform
       THEN /\ Return(NoText)
            /\ steps' = <<>>
            /\ sha' = NoText
            /\ shaFileRead' = NoFile
            /\ UNCHANGED <<thirdParty, gomaGnFile>>
       ELSE /\ thirdParty' = TRUE
            /\ gomaGnFile' = TextFile(gomaGnContents)
            /\ steps' = (IF thirdParty THEN <<>> ELSE <<"mkdir">>)
                        \o (IF ~gomaGnFile.exists \/ gomaGnFile.data # gomaGnContents
                            THEN <<"writeGn">> ELSE <<>>)
            /\ sha' = DesiredSha(cfg)
            /\ shaFileRead' = gomaShaFile
            /\ IF IsInstalled(gomaShaFile, DesiredSha(cfg), env)
               THEN Return(DesiredSha(cfg))
               ELSE Goto("goma_stop")

\* goma.js:76-86; stopOk: python3 goma_ctl.py stop exits 0 (execFileSync
\* throws otherwise)
GomaStop(stopOk) ==
    /\ pc = "goma_stop"
    /\ UNCHANGED <<gomaPlatform, gomaLocal, expected, xcodeDisk, thirdParty, gomaGnFile,
                   downloadStatus, extractStatus, recorded>>
    /\ IF gomaDir.exists /\ gomaDir.ctl /\ ~stopOk
       THEN /\ Throw("goma_ctl.py stop")
            /\ steps' = Append(steps, "stop")
            /\ UNCHANGED <<gomaDir, gomaShaFile, tmpDownload>>
       ELSE /\ Goto("goma_download")
            /\ steps' = steps
                  \o (IF gomaDir.exists /\ gomaDir.ctl THEN <<"stop">> ELSE <<>>)
                  \o <<"rimrafGomaDir", "rimrafTmp">>
            /\ gomaDir' = NoDir
            /\ gomaShaFile' = NoFile
            /\ tmpDownload' = NoArchive

\* goma.js:88-113; d: the exit status of download.js and the file it left
GomaDownload(d) ==
    /\ pc = "goma_download"
    /\ downloadStatus' = <<d.status>>
    /\ UNCHANGED <<gomaPlatform, config, redownload, sha, shaFileRead, expected,
                   xcodeDisk, thirdParty, gomaGnFile, gomaDir, gomaShaFile,
                   extractStatus, recorded>>
    /\ IF DownloadFailed(d.status)
       THEN /\ tmpDownload' = NoArchive
            /\ steps' = steps \o <<"download", "rimrafTmp", "fatal">>
            /\ hash' = NoText
            /\ Exit(fatal, "Failure while downloading goma")
       ELSE /\ hash' = SHA256Hex(d.file.data)
            /\ IF HashMismatch(SHA256Hex(d.file.data), sha)
               THEN /\ tmpDownload' = NoArchive
                    /\ steps' = steps \o <<"download", "hash", "rimrafTmp", "exit">>
                    /\ Exit(1, "Got hash which did not match")
               ELSE /\ tmpDownload' = d.file
                    /\ steps' = steps \o <<"download", "hash">>
                    /\ Goto("goma_extract")

\* goma.js:115-128; x: the exit status of the extraction and what it left
GomaExtract(x) ==
    /\ pc = "goma_extract"
    /\ extractStatus' = <<x.status>>
    /\ gomaDir' = x.dir
    /\ UNCHANGED <<gomaPlatform, gomaLocal, expected, xcodeDisk, thirdParty, gomaGnFile,
                   downloadStatus, recorded>>
    /\ IF EndsWithTgz(filename) /\ ExtractFailed(x.status)
       THEN /\ steps' = steps \o <<"tar", "fatal">>
            /\ Exit(fatal, "Failed to extract goma")
            /\ UNCHANGED <<gomaShaFile, tmpDownload>>
       ELSE IF ~EndsWithTgz(filename) /\ x.status # 0
       THEN \* unzipSync throws
            /\ steps' = steps \o <<"unzip">>
            /\ Throw("unzipSync")
            /\ UNCHANGED <<gomaShaFile, tmpDownload>>
       ELSE /\ tmpDownload' = NoArchive
            /\ gomaShaFile' = Marker(sha)
            /\ steps' = steps \o <<IF EndsWithTgz(filename) THEN "tar" ELSE "unzip",
                                   "rimrafTmp", "writeSha">>
            /\ Return(sha)

----------------------------------------------------------------------------
(* Xcode: module constants.  A version is the sequence of its dot-separated *)
(* components, so that v.split('.') and the template `${v}.0` are computed. *)

\* goma.js:261-306
XcodeVersions ==
    [v \in {<<"9","4","1">>, <<"11","1","0">>, <<"10","3","0">>, <<"11","5","0">>,
            <<"12","0","0-UA">>, <<"12","2","0">>, <<"12","4","0">>, <<"13","2","1">>,
            <<"13","3","0">>, <<"14","1","0">>, <<"14","3","0">>} |->
       CASE v = <<"9","4","1">> ->
              [fileName |-> "Xcode-9.4.1.zip", md5 |-> <<"8","4","b","e","2","6","b","a">>]
         [] v = <<"11","1","0">> ->
              [fileName |-> "Xcode-11.1.zip", md5 |-> <<"f","2","4","c","2","5","8","0">>]
         [] v = <<"10","3","0">> ->
              [fileName |-> "Xcode-10.3.0.zip", md5 |-> <<"d","f","5","8","7","e","6","5">>]
         [] v = <<"11","5","0">> ->
              [fileName |-> "Xcode-11.5.zip", md5 |-> <<"2","6","6","5","c","c","4","5">>]
         [] v = <<"12","0","0-UA">> ->
              [fileName |-> "Xcode-12.0.0-UA.zip", md5 |-> <<"2","8","c","3","f","8","a","9">>]
         [] v = <<"12","2","0">> ->
              [fileName |-> "Xcode-12.2.0.zip", md5 |-> <<"d","1","b","f","c","9","b","5">>]
         [] v = <<"12","4","0">> ->
              [fileName |-> "Xcode-12.4.0.zip", md5 |-> <<"2","0","8","2","8","f","7","2">>]
         [] v = <<"13","2","1">> ->
              [fileName |-> "Xcode-13.2.1.zip", md5 |-> <<"c","b","1","1","9","3","a","5">>]
         [] v = <<"13","3","0">> ->
              [fileName |-> "Xcode-13.3.0.zip", md5 |-> <<"b","2","1","6","a","2","7","2">>]
         [] v = <<"14","1","0">> ->
              [fileName |-> "Xcode-14.1.0.zip", md5 |-> <<"3","d","c","1","a","4","d","8">>]
         [] v = <<"14","3","0">> ->
              [fileName |-> "Xcode-14.3.0.zip", md5 |-> <<"4","b","c","9","0","4","3","b">>]]

\* the number a component of a version starts with (semver.coerce reads the
\* digits and drops what follows them)
LeadingNumber(c) ==
    CASE c = "0" -> 0 [] c = "0-UA" -> 0 [] c = "1" -> 1 [] c = "2" -> 2
      [] c = "3" -> 3 [] c = "4" -> 4 [] c = "5" -> 5 [] c = "9" -> 9
      [] c = "10" -> 10 [] c = "11" -> 11 [] c = "12" -> 12 [] c = "13" -> 13
      [] c = "14" -> 14 [] c = "15" -> 15

Decimal(n) ==
    CASE n = 0 -> "0" [] n = 1 -> "1" [] n = 2 -> "2" [] n = 3 -> "3"
      [] n = 4 -> "4" [] n = 5 -> "5" [] n = 9 -> "9" [] n = 10 -> "10"
      [] n = 11 -> "11" [] n = 12 -> "12" [] n = 13 -> "13" [] n = 14 -> "14"
      [] n = 15 -> "15"

\* goma.js:311, semver.valid(semver.coerce(v))
Coerce(v) == [i \in 1..3 |-> Decimal(LeadingNumber(v[i]))]

Lower(a, b) ==
    LET x == [i \in 1..3 |-> LeadingNumber(a[i])]
        y == [i \in 1..3 |-> LeadingNumber(b[i])]
    IN  \/ x[1] < y[1]
        \/ x[1] = y[1] /\ x[2] < y[2]
        \/ x[1] = y[1] /\ x[2] = y[2] /\ x[3] < y[3]

\* semver.rcompare(a, b) < 0: a sorts before b, that is a is the higher version
Higher(a, b) ==
    LET x == [i \in 1..3 |-> LeadingNumber(a[i])]
        y == [i \in 1..3 |-> LeadingNumber(b[i])]
    IN  \/ x[1] > y[1]
        \/ x[1] = y[1] /\ x[2] > y[2]
        \/ x[1] = y[1] /\ x[2] = y[2] /\ x[3] > y[3]

\* goma.js:308-314
fallbackXcode ==
    LET coerced == {Coerce(v) : v \in DOMAIN XcodeVersions}
    IN  CHOOSE m \in coerced : \A o \in coerced \ {m} : Higher(m, o)

\* goma.js:364-369 and 369, version.startsWith('14')
StartsWith14(v) == v[1] = "14"

\* A candidate source of expectedXcodeVersion (goma.js:345-362): whether the
\* file exists and what extractXcodeVersion finds in it (no text: null)
NoSource == [exists |-> FALSE, xcode |-> NoText]
Sources(found) ==
    {NoSource, [exists |-> TRUE, xcode |-> NoText]}
    \cup {[exists |-> TRUE, xcode |-> v] : v \in found}

RECURSIVE LastVersion(_)
LastVersion(srcs) ==
    IF srcs = <<>> THEN NoText
    ELSE IF srcs[Len(srcs)].exists /\ srcs[Len(srcs)].xcode # NoText
         THEN srcs[Len(srcs)].xcode
    ELSE LastVersion(SubSeq(srcs, 1, Len(srcs) - 1))

RECURSIVE FirstVersion(_)
FirstVersion(srcs) ==
    IF srcs = <<>> THEN NoText
    ELSE IF Head(srcs).exists /\ Head(srcs).xcode # NoText THEN Head(srcs).xcode
    ELSE FirstVersion(Tail(srcs))

expectedXcodeVersionAnyOS(srcs, isVentura) ==
    LET version == FirstVersion(srcs)
    IN  IF version = NoText THEN fallbackXcode
        ELSE IF version \notin DOMAIN XcodeVersions THEN fallbackXcode
        ELSE version

\* goma.js:340-398
expectedXcodeVersion(srcs, isVentura) ==
    LET version == FirstVersion(srcs)
    IN  IF isVentura /\ version # NoText /\ ~StartsWith14(version) THEN fallbackXcode
        ELSE IF version = NoText THEN fallbackXcode
        ELSE IF version \notin DOMAIN XcodeVersions THEN fallbackXcode
        ELSE version

\* the versions the checked-out config files name in the model; 15.0.0 is not
\* in XcodeVersions
FoundVersions == {<<"13","3","0">>, <<"14","3","0">>, <<"15","0","0">>}

ExpectedVersions ==
    {expectedXcodeVersion(<<a, b, c>>, isVentura) :
        a \in Sources(FoundVersions), b \in Sources(FoundVersions),
        c \in Sources(FoundVersions), isVentura \in BOOLEAN}

\* goma.js:345-362, the candidates whose content readFileSync reads: those that
\* exist, up to and including the first one extractXcodeVersion finds a
\* version in
RECURSIVE ReadUntilMatch(_, _)
ReadUntilMatch(candidates, i) ==
    IF i > Len(candidates) THEN <<>>
    ELSE IF ~candidates[i].exists THEN ReadUntilMatch(candidates, i + 1)
    ELSE IF candidates[i].xcode # NoText THEN <<i>>
    ELSE <<i>> \o ReadUntilMatch(candidates, i + 1)

\* goma.js:340-398, one call of expectedXcodeVersion
ExpectedXcodeVersion ==
    /\ resolved = <<>>
    /\ versionFound' = FirstVersion(yamls)
    /\ readLog' = ReadUntilMatch(yamls, 1)
    /\ resolved' = <<expectedXcodeVersion(yamls, ventura)>>
    /\ UNCHANGED <<yamls, ventura, installVars, buildVars>>

----------------------------------------------------------------------------
(* Xcode: the directory third_party/Xcode *)

\* an entry of the directory: nothing, a bundle directory (with the
\* CFBundleShortVersionString of its Info.plist, no text when it has none, and
\* whether all of the bundle is there) or a symbolic link to Xcode-<target>.app
NoNode == [kind |-> "none", plist |-> NoText, complete |-> FALSE, target |-> NoText]
DirNode(p, c) == [kind |-> "dir", plist |-> p, complete |-> c, target |-> NoText]
LinkNode(t) == [kind |-> "link", plist |-> NoText, complete |-> FALSE, target |-> t]

Unknown == <<"unknown">>
bad == <<"10","3">>
good == <<"10","3","0">>
VersionedNames == {bad, good, <<"13","3","0">>, <<"14","3","0">>, Unknown}

\* what a path names once its symbolic links are followed
RECURSIVE Follow(_, _, _)
Follow(dir, node, fuel) ==
    IF node.kind # "link" THEN node
    ELSE IF fuel = 0 \/ node.target \notin DOMAIN dir THEN NoNode
    ELSE Follow(dir, dir[node.target], fuel - 1)

Resolve(dir, node) == Follow(dir, node, Cardinality(DOMAIN dir))

\* fs.existsSync follows symbolic links
existsSync(dir, node) == Resolve(dir, node).kind = "dir"

\* fs.statSync follows symbolic links too: its Stats never describe a link
StatIsSymbolicLinkAsLstat(node) == node.kind = "link"

StatIsSymbolicLink(node) == FALSE

getXcodeVersionUnknown(dir, path) == Unknown

\* goma.js:316-328; `defaults read` fails when there is no Info.plist
getXcodeVersion(dir, path) ==
    LET app == Resolve(dir, path)
    IN  IF app.kind = "dir" /\ app.plist # NoText
        THEN IF Len(app.plist) = 2 THEN Append(app.plist, "0") ELSE app.plist
        ELSE Unknown

\* the short version string of the bundle in the archive of version v: Apple
\* leaves out a patch number of 0
ShortVersion(v) == IF LeadingNumber(v[3]) = 0 THEN <<v[1], v[2]>> ELSE v

XcodeBundle(v) == [kind |-> "xcode", of |-> v]

\* goma.js:499-505, md5 -q: a published archive hashes to its entry of
\* XcodeVersions; d41d8cd9 is the digest of no bytes
hashFile(file) ==
    IF file.data.kind = "xcode"
    THEN XcodeVersions[file.data.of].md5
    ELSE <<"d","4","1","d","8","c","d","9">>

\* goma.js:400-410
fixBadVersioned103(dir) ==
    IF existsSync(dir, dir[bad])
    THEN IF existsSync(dir, dir[good])
         THEN [dir EXCEPT ![bad] = NoNode]
         ELSE [dir EXCEPT ![bad] = NoNode, ![good] = dir[bad]]
    ELSE dir

----------------------------------------------------------------------------
(* ensureXcode *)

\* unnamed/part_001:87 with goma.js:18-22: process.platform === 'darwin'
isDarwin == gomaPlatform \in {"darwin", "darwin-arm64"}

NoScratch == [exists |-> FALSE, app |-> NoNode]

\* what unzip can leave at tmp_unzip/Xcode.app, by exit status
Unzips(v) ==
    {[status |-> 0, app |-> DirNode(ShortVersion(v), TRUE)],
     [status |-> 2, app |-> NoNode],
     [status |-> 2, app |-> DirNode(NoText, FALSE)],
     [status |-> 2, app |-> DirNode(ShortVersion(v), FALSE)]}

\* goma.js:427, existingHash === expectedXcodeHash
ZipMatches(existingHash, expectedXcodeHash) == existingHash = expectedXcodeHash

\* goma.js:456, newHash !== expectedXcodeHash
XcodeHashMismatch(newHash, expectedXcodeHash) == newHash # expectedXcodeHash

\* goma.js:466, rimraf.sync(unzipPath)
StaleScratch(scratch) == scratch

FreshScratch(scratch) == NoScratch

\* goma.js:412-437 and, with an archive to reuse, 464-466; e: what
\* expectedXcodeVersion() returns
XcodeBegin(e) ==
    /\ Idle
    /\ isDarwin
    /\ expected' = e
    /\ hash' = NoText
    /\ config' = NoConfig
    /\ redownload' = EnvUnset
    /\ sha' = NoText
    /\ shaFileRead' = NoFile
    /\ downloadStatus' = <<>>
    /\ extractStatus' = <<>>
    /\ recorded' = NoText
    /\ UNCHANGED <<gomaPlatform, gomaDisk, XcodePath>>
    /\ LET dir == fixBadVersioned103(versioned)
           fixed == IF dir # versioned THEN <<"fixBadVersioned103">> ELSE <<>>
           shouldEnsureXcode ==
               \/ ~existsSync(dir, XcodePath)
               \/ getXcodeVersion(dir, XcodePath) # e
       IN  /\ versioned' = dir
           /\ IF ~shouldEnsureXcode
              THEN /\ XcodeZip' = NoArchive
                   /\ steps' = fixed \o <<"rimrafZip">>
                   /\ Return(<<"true">>)
                   /\ UNCHANGED <<XcodeDir, unzipPath>>
              ELSE /\ XcodeDir' = TRUE
                   /\ IF existsSync(dir, dir[e])
                      THEN /\ steps' = fixed \o <<"ensureDir">>
                           /\ Goto("xcode_swap")
                           /\ UNCHANGED <<XcodeZip, unzipPath>>
                      ELSE IF ~XcodeZip.exists
                      THEN /\ steps' = fixed \o <<"ensureDir">>
                           /\ Goto("xcode_download")
                           /\ UNCHANGED <<XcodeZip, unzipPath>>
                      ELSE IF ZipMatches(hashFile(XcodeZip), XcodeVersions[e].md5)
                      THEN /\ steps' = fixed \o <<"ensureDir", "hashFile", "rimrafUnzip">>
                           /\ unzipPath' = FreshScratch(unzipPath)
                           /\ Goto("xcode_unzip")
                           /\ UNCHANGED XcodeZip
                      ELSE /\ steps' = fixed \o <<"ensureDir", "hashFile", "rimrafZip">>
                           /\ XcodeZip' = NoArchive
                           /\ Goto("xcode_download")
                           /\ UNCHANGED unzipPath

\* goma.js:439-466; d: the exit status of download.js and the file it left
XcodeDownload(d) ==
    /\ pc = "xcode_download"
    /\ downloadStatus' = <<d.status>>
    /\ UNCHANGED <<gomaPlatform, config, redownload, sha, shaFileRead, gomaDisk,
                   expected, XcodeDir, XcodePath, versioned, extractStatus, recorded>>
    /\ IF DownloadFailed(d.status)
       THEN /\ XcodeZip' = NoArchive
            /\ steps' = steps \o <<"download", "rimrafZip", "fatal">>
            /\ hash' = NoText
            /\ Exit(fatal, "Failure while downloading Xcode zip")
            /\ UNCHANGED unzipPath
       ELSE /\ hash' = hashFile(d.file)
            /\ IF XcodeHashMismatch(hashFile(d.file), XcodeVersions[expected].md5)
               THEN /\ XcodeZip' = NoArchive
                    /\ steps' = steps \o <<"download", "hashFile", "rimrafZip", "fatal">>
                    /\ Exit(fatal, "Downloaded Xcode zip had hash which does not match")
                    /\ UNCHANGED unzipPath
               ELSE /\ XcodeZip' = d.file
                    /\ unzipPath' = FreshScratch(unzipPath)
                    /\ steps' = steps \o <<"download", "hashFile", "rimrafUnzip">>
                    /\ Goto("xcode_unzip")

\* goma.js:467-469, the run of unzip alone; u: its exit status, which the code
\* does not read, and what it left in tmp_unzip
XcodeUnzip(u) ==
    /\ pc = "xcode_unzip"
    /\ extractStatus' = <<u.status>>
    /\ unzipPath' = [exists |-> TRUE, app |-> u.app]
    /\ steps' = Append(steps, "unzip")
    /\ Goto("xcode_install")
    /\ UNCHANGED <<gomaPlatform, gomaLocal, gomaDisk, expected, XcodeDir, XcodePath,
                   versioned, XcodeZip, downloadStatus, recorded>>

\* goma.js:471-473
XcodeInstall ==
    /\ pc = "xcode_install"
    /\ UNCHANGED <<gomaPlatform, gomaLocal, gomaDisk, expected, XcodeDir, XcodePath,
                   downloadStatus, extractStatus, recorded>>
    /\ IF unzipPath.app.kind = "none"
       THEN \* renameSync of tmp_unzip/Xcode.app, which is not there
            /\ steps' = steps
            /\ Throw("ENOENT rename")
            /\ UNCHANGED <<versioned, XcodeZip, unzipPath>>
       ELSE /\ versioned' = [versioned EXCEPT ![expected] = unzipPath.app]
            /\ XcodeZip' = NoArchive
            /\ unzipPath' = NoScratch
            /\ steps' = steps \o <<"renameApp", "rimrafZip", "rimrafUnzip">>
            /\ Goto("xcode_swap")

\* goma.js:476-497
XcodeSwap ==
    /\ pc = "xcode_swap"
    /\ UNCHANGED <<gomaPlatform, gomaLocal, gomaDisk, expected, XcodeDir, unzipPath,
                   downloadStatus, extractStatus, recorded>>
    /\ LET detected == getXcodeVersion(versioned, XcodePath)
           aside ==
               IF ~existsSync(versioned, XcodePath) THEN "nothing"
               ELSE IF StatIsSymbolicLink(XcodePath) THEN "unlink"
               ELSE IF ~existsSync(versioned, versioned[detected]) THEN "rename"
               ELSE "rimraf"
           \* rename(2) does not put a directory in the place of a link
           renameThrows ==
               aside = "rename" /\ XcodePath.kind = "dir"
                                /\ versioned[detected].kind = "link"
           path == IF aside = "nothing" THEN XcodePath ELSE NoNode
       IN  IF renameThrows
           THEN /\ steps' = steps
                /\ Throw("ENOTDIR rename")
                /\ UNCHANGED <<XcodePath, versioned, XcodeZip>>
           ELSE /\ versioned' = IF aside = "rename"
                                THEN [versioned EXCEPT ![detected] = XcodePath]
                                ELSE versioned
                /\ IF path.kind # "none"
                   THEN \* symlinkSync onto a path that is there
                        /\ XcodePath' = path
                        /\ steps' = steps
                        /\ Throw("EEXIST symlink")
                        /\ UNCHANGED XcodeZip
                   ELSE /\ XcodePath' = LinkNode(expected)
                        /\ XcodeZip' = NoArchive
                        /\ steps' = steps
                              \o (IF aside = "nothing" THEN <<>> ELSE <<aside>>)
                              \o <<"symlink", "rimrafZip">>
                        /\ Return(<<"true">>)

----------------------------------------------------------------------------
(* e build: ensureGNGen *)

LF == <<"\n">>
CRLF == <<"\r", "\n">>

\* part_001:30, process.platform === 'win32' ? '\r\n' : '\n'
NativeEOL == IF gomaPlatform = "win32" THEN CRLF ELSE LF

\* Array.prototype.join
RECURSIVE Join(_, _)
Join(lines, sep) ==
    IF lines = <<>> THEN <<>>
    ELSE IF Len(lines) = 1 THEN lines[1]
    ELSE lines[1] \o sep \o Join(Tail(lines), sep)

\* the command line and configuration before a command has read them
NoOptions ==
    [listTargets |-> FALSE, goma |-> "none", useGoma |-> FALSE, gen |-> FALSE,
     gomaSource |-> "", args |-> <<>>, chromium |-> FALSE, env |-> EnvUnset]

\* config.gen.args in the model: one or two arguments, each a line of text
GenArgs == {<< <<"a">> >>, << <<"a">>, <<"b">> >>}

\* part_001:25, !fs.existsSync(buildfile)
BuildfileMissingNever(hasBuildfile) == FALSE

BuildfileMissing(hasBuildfile) == ~hasBuildfile

\* part_001:30, the comparison of args.gn with config.gen.args
ArgsDiffer(contents, args) == Trim(contents) # Trim(Join(args, NativeEOL))

\* part_001:17-18, what gn gen is given as --args
gnArgs(args) == Join(args, <<" ">>)

\* part_001:23-32 with runGNGen (13-21); gnOk: gn gen exits 0 (execFileSync
\* throws otherwise).  gn gen writes build.ninja and the args it was given.
EnsureGNGen(gnOk) ==
    /\ cmd = "gngen"
    /\ LET read == ~BuildfileMissing(buildfile) /\ argsFile.exists
           run == \/ BuildfileMissing(buildfile)
                  \/ ~argsFile.exists
                  \/ ArgsDiffer(argsFile.data, options.args)
       IN  /\ gate' = <<[hadBuildfile |-> buildfile, hadArgs |-> argsFile,
                        read |-> read, runs |-> IF run THEN 1 ELSE 0]>>
           /\ trace' = trace \o <<"ensureGNGen">>
                             \o (IF read THEN <<"readArgs">> ELSE <<>>)
                             \o (IF run THEN <<"gn gen">> ELSE <<>>)
                             \o (IF run /\ ~gnOk THEN <<"fatal">> ELSE <<>>)
           /\ IF run /\ ~gnOk
              THEN /\ cmd' = "finished"
                   /\ cmdExit' = <<fatal>>
                   /\ UNCHANGED <<buildfile, argsFile>>
              ELSE /\ cmd' = "ninja"
                   /\ cmdExit' = <<>>
                   /\ buildfile' = (buildfile \/ run)
                   /\ argsFile' = IF run THEN TextFile(gnArgs(options.args))
                                  ELSE argsFile
    /\ UNCHANGED <<options, wrappedStatus, ninjaOpts, gomaLoginFile, now,
                   authenticated, installVars, resolverVars>>

----------------------------------------------------------------------------
(* goma.js: the login timestamp and gomaIsAuthenticated *)

\* goma.js:135, 1000 * 60 * 60 * 12
TwelveHours == 43200000

\* Date.now() when the model starts, in milliseconds since the model's epoch
Clock == 90000000

Digits == <<"0", "1", "2", "3", "4", "5", "6", "7", "8", "9">>
DigitValue(c) == CHOOSE d \in 0..9 : Digits[d + 1] = c
IsDigit(c) == \E d \in 0..9 : Digits[d + 1] = c

\* `${n}` for a non-negative integer (goma.js:188)
RECURSIVE DecimalText(_)
DecimalText(n) ==
    IF n < 10 THEN <<Digits[n + 1]>>
    ELSE DecimalText(n \div 10) \o <<Digits[(n % 10) + 1]>>

\* a number is <<n>>, and NaN is no number
NaN == <<>>

\* the value of the longest prefix of digits of text, after acc
RECURSIVE DigitsValue(_, _)
DigitsValue(text, acc) ==
    IF text = <<>> \/ ~IsDigit(Head(text)) THEN acc
    ELSE DigitsValue(Tail(text), acc * 10 + DigitValue(Head(text)))

\* parseInt(contents, 10) (goma.js:179): white space is skipped, then a sign
\* and digits are read; NaN when no digit is there
ParseInt(text) ==
    LET t == TrimStart(text)
        negative == t # <<>> /\ Head(t) = "-"
        body == IF t # <<>> /\ Head(t) \in {"-", "+"} THEN Tail(t) ELSE t
    IN  IF body = <<>> \/ ~IsDigit(Head(body)) THEN NaN
        ELSE IF negative THEN <<0 - DigitsValue(body, 0)>>
        ELSE <<DigitsValue(body, 0)>>

\* goma.js:176-180, getLastKnownLoginTime().getTime(); no text: null
getLastKnownLoginTime(file) ==
    IF ~file.exists THEN NoText ELSE <<ParseInt(file.data)>>

\* goma.js:135, Date.now() - lastKnownLogin.getTime() < 1000 * 60 * 60 * 12
WithinWindowInclusive(clock, t) == t # NaN /\ clock - t[1] <= TwelveHours

WithinWindow(clock, t) == t # NaN /\ clock - t[1] < TwelveHours

\* what `python3 goma_auth.py info` run in gomaDir can do: execFileSync throws
\* (always, when there is no gomaDir to run it in) or returns its output
AuthInfos(dir) ==
    IF dir.exists /\ dir.complete
    THEN {"throws", "Login as Jane Doe", "Not logged in"}
    ELSE {"throws"}

\* goma.js:147-148, loggedInPattern.test(loggedInInfo.toString().trim())
loggedInPattern(info) == info = "Login as Jane Doe"

\* goma.js:131-149; info: what goma_auth.py info does when it is run
GomaIsAuthenticated(info) ==
    /\ cmd = "is_authenticated"
    /\ LET lastKnownLogin == getLastKnownLoginTime(gomaLoginFile)
           recent == /\ lastKnownLogin # NoText
                     /\ WithinWindow(now, lastKnownLogin[1])
           invoked == isSupportedPlatform /\ ~recent
           value == IF ~isSupportedPlatform THEN FALSE
                    ELSE IF recent THEN TRUE
                    ELSE info # "throws" /\ loggedInPattern(info)
       IN  /\ authenticated' = <<[value |-> value, invoked |-> invoked,
                                 info |-> info, file |-> gomaLoginFile,
                                 at |-> now]>>
           /\ trace' = trace \o <<"isAuthenticated">>
                             \o (IF invoked THEN <<"goma_auth info">> ELSE <<>>)
           /\ cmd' = IF value THEN "ensure" ELSE "login"
    /\ UNCHANGED <<options, cmdExit, wrappedStatus, ninjaOpts, buildfile, argsFile,
                   gate, gomaLoginFile, now, installVars, resolverVars>>

----------------------------------------------------------------------------
(* e build: the command and runNinja *)

\* the status of a spawnSync result: an exit status, or null when the child
\* was ended by a signal or could not be started (written -1 here)
NullStatus == -1
SpawnStatuses == {0, 1, 2, NullStatus}

\* process.exit(code): null counts as no code, and the process exits with 0
ProcessExit(code) == IF code = NullStatus THEN 0 ELSE code

\* utils/logging fatal(msg, code): the process exits with the code of the
\* failure where there is one, and with 1 otherwise
FatalExit(code) == IF code = NullStatus THEN fatal ELSE code

\* the command lines and configurations of the model
BuildOptions ==
    {[NoOptions EXCEPT !.listTargets = TRUE, !.args = << <<"a">> >>]}
    \cup
    {[listTargets |-> FALSE, goma |-> g, useGoma |-> u, gen |-> n,
      gomaSource |-> "", args |-> a, chromium |-> c, env |-> v]
        : g \in {"cache-only", "cluster", "none"}, u \in BOOLEAN, n \in BOOLEAN,
          a \in GenArgs, c \in BOOLEAN, v \in {EnvUnset, [set |-> TRUE, value |-> "1"]}}

\* part_001:35, the entry of runNinja
RunNinjaEntry(opts) ==
    IF opts.useGoma /\ opts.goma # "none" THEN "prepare" ELSE "depot"

\* part_001:100, what follows the load of Xcode
AfterLoadXcode(opts) == IF opts.gen THEN "gen_forced" ELSE RunNinjaEntry(opts)

\* the process ends with the code
Finish(code) ==
    /\ cmd' = "finished"
    /\ cmdExit' = <<code>>

\* part_001:71-98, up to the spawn of e load-xcode
BuildStart(opts) ==
    /\ cmd = "none"
    /\ options' = opts
    /\ isDarwin \/ ~opts.chromium
    /\ IF opts.listTargets
       THEN /\ trace' = <<"listTargets">>
            /\ Finish(0)
       ELSE /\ trace' = <<>>
            /\ cmdExit' = <<>>
            /\ cmd' = IF isDarwin /\ ~opts.chromium THEN "load_xcode"
                      ELSE AfterLoadXcode(opts)
    /\ UNCHANGED <<wrappedStatus, ninjaOpts, buildfile, argsFile, gate,
                   gomaLoginFile, now, authenticated, installVars, resolverVars>>

\* part_001:88-98; status: the status of the e load-xcode subprocess
LoadXcode(status) ==
    /\ cmd = "load_xcode"
    /\ IF status # 0
       THEN /\ trace' = trace \o <<"load-xcode", "exit">>
            /\ wrappedStatus' = <<status>>
            /\ Finish(ProcessExit(status))
       ELSE /\ trace' = Append(trace, "load-xcode")
            /\ cmd' = AfterLoadXcode(options)
            /\ UNCHANGED <<wrappedStatus, cmdExit>>
    /\ UNCHANGED <<options, ninjaOpts, buildfile, argsFile, gate, gomaLoginFile,
                   now, authenticated, installVars, resolverVars>>

\* part_001:100-102 with runGNGen (13-21)
GenForced(gnOk) ==
    /\ cmd = "gen_forced"
    /\ IF gnOk
       THEN /\ trace' = Append(trace, "gn gen")
            /\ buildfile' = TRUE
            /\ argsFile' = TextFile(gnArgs(options.args))
            /\ cmd' = RunNinjaEntry(options)
            /\ UNCHANGED cmdExit
       ELSE /\ trace' = trace \o <<"gn gen", "fatal">>
            /\ Finish(fatal)
            /\ UNCHANGED <<buildfile, argsFile>>
    /\ UNCHANGED <<options, wrappedStatus, ninjaOpts, gate, gomaLoginFile, now,
                   authenticated, installVars, resolverVars>>

\* the config runNinja hands to downloadAndPrepareGoma
GomaConfig == [defined |-> TRUE, gomaSource |-> options.gomaSource]

\* rimraf.sync(gomaDir) (goma.js:85) takes last-known-login with it
LoginFileAfter(at) ==
    IF at = "goma_download" THEN NoFile ELSE gomaLoginFile

\* the part of the command's state a step of downloadAndPrepareGoma leaves alone
buildRest == <<cmd, trace, options, cmdExit, wrappedStatus, ninjaOpts, buildfile,
               argsFile, gate, now, authenticated>>

\* part_001:36 and goma.js:154: the steps of downloadAndPrepareGoma, called
\* by runNinja and again by authenticateGoma
PrepareBegin ==
    /\ cmd \in {"prepare", "auth_prepare"}
    /\ pc = "idle"
    /\ GomaBegin(GomaConfig, options.env)
    /\ UNCHANGED <<buildRest, gomaLoginFile, resolverVars>>

PrepareStop ==
    /\ cmd \in {"prepare", "auth_prepare"}
    /\ \E stopOk \in BOOLEAN : GomaStop(stopOk)
    /\ gomaLoginFile' = LoginFileAfter(pc')
    /\ UNCHANGED <<buildRest, resolverVars>>

PrepareDownload ==
    /\ cmd \in {"prepare", "auth_prepare"}
    /\ pc = "goma_download"
    /\ \E d \in Downloads(GomaBundle(config)) : GomaDownload(d)
    /\ UNCHANGED <<buildRest, gomaLoginFile, resolverVars>>

PrepareExtract ==
    /\ cmd \in {"prepare", "auth_prepare"}
    /\ \E x \in GomaExtractions : GomaExtract(x)
    /\ UNCHANGED <<buildRest, gomaLoginFile, resolverVars>>

\* downloadAndPrepareGoma came back to its caller
PrepareReturnedAlways == TRUE

PrepareReturned == outcome = "returned"

\* part_001:36-43 and goma.js:151-156: where the command goes on after
\* downloadAndPrepareGoma, or the end of the process if that one ended it
AfterPrepare ==
    /\ cmd \in {"prepare", "auth_prepare"}
    /\ pc = "done"
    /\ pc' = "idle"
    /\ UNCHANGED <<steps, outcome, exitCode, result, message, downloadStatus,
                   extractStatus, recorded>>
    /\ IF PrepareReturned
       THEN /\ trace' = Append(trace, "downloadAndPrepare")
            /\ cmd' = IF cmd = "auth_prepare" THEN "is_authenticated"
                      ELSE IF options.goma = "cluster" /\ isSupportedPlatform
                      THEN "auth_prepare"
                      ELSE "ensure"
            /\ UNCHANGED cmdExit
       ELSE /\ trace' = trace \o <<"downloadAndPrepare", "fatal">>
            /\ Finish(exitCode)
    /\ UNCHANGED <<options, wrappedStatus, ninjaOpts, buildfile, argsFile, gate,
                   gomaLoginFile, now, authenticated, gomaPlatform, gomaLocal,
                   gomaDisk, expected, xcodeDisk, resolverVars>>

\* goma.js:157-173; status: the status of the goma_auth.py login subprocess
Login(status) ==
    /\ cmd = "login"
    /\ IF status # 0
       THEN /\ trace' = trace \o <<"goma_auth login", "fatal">>
            /\ wrappedStatus' = <<status>>
            /\ Finish(FatalExit(status))
            /\ UNCHANGED gomaLoginFile
       ELSE /\ trace' = trace \o <<"goma_auth login", "recordLogin">>
            /\ gomaLoginFile' = TextFile(DecimalText(now))
            /\ cmd' = "ensure"
            /\ UNCHANGED <<wrappedStatus, cmdExit>>
    /\ UNCHANGED <<options, ninjaOpts, buildfile, argsFile, gate, now,
                   authenticated, installVars, resolverVars>>

\* what ensureGomaStart can meet: a compiler proxy that answers, one that
\* goma_ctl.py starts, or a goma_ctl.py that fails (always, with no gomaDir)
GomaStarts(dir) ==
    IF dir.exists /\ dir.complete THEN {"running", "started", "throws"}
    ELSE {"throws"}

\* goma.js:191-216
EnsureGomaStart(start) ==
    /\ cmd = "ensure"
    /\ IF start = "throws"
       THEN /\ trace' = trace \o <<"ensure", "fatal">>
            /\ Finish(fatal)
       ELSE /\ trace' = Append(trace, "ensure")
            /\ cmd' = "depot"
            /\ UNCHANGED cmdExit
    /\ UNCHANGED <<options, wrappedStatus, ninjaOpts, buildfile, argsFile, gate,
                   gomaLoginFile, now, authenticated, installVars, resolverVars>>

\* part_001:51, depot.ensure(config)
DepotEnsure(ok) ==
    /\ cmd = "depot"
    /\ IF ok
       THEN /\ trace' = Append(trace, "depot.ensure")
            /\ cmd' = "gngen"
            /\ UNCHANGED cmdExit
       ELSE /\ trace' = trace \o <<"depot.ensure", "fatal">>
            /\ Finish(fatal)
    /\ UNCHANGED <<options, wrappedStatus, ninjaOpts, buildfile, argsFile, gate,
                   gomaLoginFile, now, authenticated, installVars, resolverVars>>

\* part_001:54-60; status: the exit status of ninja (execFileSync throws when
\* it is not 0, and the command's catch calls fatal)
Ninja(status) ==
    /\ cmd = "ninja"
    /\ ninjaOpts' = <<[cwd |-> "outDir",
                      GOMA_DISABLED |-> ~options.useGoma]>>
    /\ trace' = trace \o <<"ninja">> \o (IF status # 0 THEN <<"fatal">> ELSE <<>>)
    /\ Finish(IF status # 0 THEN fatal ELSE 0)
    /\ UNCHANGED <<options, wrappedStatus, buildfile, argsFile, gate,
                   gomaLoginFile, now, authenticated, installVars, resolverVars>>

----------------------------------------------------------------------------
(* The machine the command runs on *)

\* platforms the model is run on; "sunos" has no entry in GOMA_PLATFORM_SHAS
ModelPlatforms == {"linux", "darwin-arm64", "win32", "sunos"}

\* what third_party/ holds of goma before the first run: nothing, a goma.gn of
\* another checkout, or an install whose marker is one of the shas, as written
\* by line 127 or saved with a final newline
GomaLayouts(p) ==
    {[thirdParty |-> tp, gn |-> NoFile, dir |-> NoDir, marker |-> NoFile]
        : tp \in BOOLEAN}
    \cup
    (IF p \in DOMAIN GOMA_PLATFORM_SHAS
     THEN {[thirdParty |-> TRUE, gn |-> g, dir |-> FullDir, marker |-> TextFile(m)]
             : g \in {TextFile(gomaGnContents), TextFile(<<"use_goma = false">>)},
               m \in {GOMA_PLATFORM_SHAS[p], MSFT_GOMA_PLATFORM_SHAS[p],
                      GOMA_PLATFORM_SHAS[p] \o <<"\n">>}}
     ELSE {})

InitProcess ==
    /\ pc = "idle"
    /\ steps = <<>>
    /\ outcome = "none"
    /\ exitCode = 0
    /\ result = NoText
    /\ message = ""
    /\ downloadStatus = <<>>
    /\ extractStatus = <<>>
    /\ recorded = NoText

InitGoma ==
    /\ gomaPlatform \in ModelPlatforms
    /\ config = NoConfig
    /\ redownload = EnvUnset
    /\ sha = NoText
    /\ shaFileRead = NoFile
    /\ hash = NoText
    /\ \E l \in GomaLayouts(gomaPlatform) :
          /\ thirdParty = l.thirdParty
          /\ gomaGnFile = l.gn
          /\ gomaDir = l.dir
          /\ gomaShaFile = l.marker
    /\ tmpDownload = NoArchive

\* what third_party/Xcode holds before the first run: nothing; an Xcode.app
\* put there as a directory, alone or beside a versioned copy of the same
\* version; the Xcode-10.3.app that fixBadVersioned103 repairs;
\* or the active link alone, its versioned directory having been deleted
NoVersioned == [n \in VersionedNames |-> NoNode]
XcodeLayouts(p) ==
    {[dir |-> FALSE, path |-> NoNode, versioned |-> NoVersioned]}
    \cup
    (IF p \in {"darwin", "darwin-arm64"}
     THEN {[dir |-> TRUE, path |-> DirNode(<<"13","3">>, TRUE), versioned |-> NoVersioned],
           [dir |-> TRUE, path |-> DirNode(<<"13","3">>, TRUE),
            versioned |-> [NoVersioned EXCEPT
                             ![<<"13","3","0">>] = DirNode(<<"13","3">>, TRUE)]],
           [dir |-> TRUE, path |-> NoNode,
            versioned |-> [NoVersioned EXCEPT ![bad] = DirNode(<<"10","3">>, TRUE)]],
           [dir |-> TRUE, path |-> LinkNode(<<"13","3","0">>), versioned |-> NoVersioned]}
     ELSE {})

InitXcode ==
    /\ expected = NoText
    /\ \E l \in XcodeLayouts(gomaPlatform) :
          /\ XcodeDir = l.dir
          /\ XcodePath = l.path
          /\ versioned = l.versioned
    /\ XcodeZip = NoArchive
    /\ unzipPath = NoScratch

\* the command `e build` has not been started
InitBuildIdle ==
    /\ cmd = "none"
    /\ trace = <<>>
    /\ options = NoOptions
    /\ cmdExit = <<>>
    /\ wrappedStatus = <<>>
    /\ ninjaOpts = <<>>
    /\ buildfile = FALSE
    /\ argsFile = NoFile
    /\ gate = <<>>
    /\ gomaLoginFile = NoFile
    /\ now = 0
    /\ authenticated = <<>>

\* expectedXcodeVersion has not been called
InitResolverIdle ==
    /\ yamls = <<NoSource, NoSource, NoSource>>
    /\ ventura = FALSE
    /\ versionFound = NoText
    /\ resolved = <<>>
    /\ readLog = <<>>

Init == InitProcess /\ InitGoma /\ InitXcode /\ InitResolverIdle /\ InitBuildIdle

Next ==
    \/ \E cfg \in Configs, env \in EnvValues :
          GomaBegin(cfg, env) /\ UNCHANGED <<resolverVars, buildVars>>
    \/ \E stopOk \in BOOLEAN : GomaStop(stopOk) /\ UNCHANGED <<resolverVars, buildVars>>
    \/ /\ pc = "goma_download"
       /\ \E d \in Downloads(GomaBundle(config)) : GomaDownload(d)
       /\ UNCHANGED <<resolverVars, buildVars>>
    \/ \E x \in GomaExtractions : GomaExtract(x) /\ UNCHANGED <<resolverVars, buildVars>>
    \/ \E e \in ExpectedVersions : XcodeBegin(e) /\ UNCHANGED <<resolverVars, buildVars>>
    \/ /\ pc = "xcode_download"
       /\ \E d \in Downloads(XcodeBundle(expected)) : XcodeDownload(d)
       /\ UNCHANGED <<resolverVars, buildVars>>
    \/ /\ pc = "xcode_unzip"
       /\ \E u \in Unzips(expected) : XcodeUnzip(u)
       /\ UNCHANGED <<resolverVars, buildVars>>
    \/ XcodeInstall /\ UNCHANGED <<resolverVars, buildVars>>
    \/ XcodeSwap /\ UNCHANGED <<resolverVars, buildVars>>

Spec == Init /\ [][Next]_vars

----------------------------------------------------------------------------
(* expectedXcodeVersion on its own: one call for every combination of the  *)
(* three config files and the macOS version, on a machine where nothing    *)
(* is installed.                                                           *)

InitNothingInstalled ==
    /\ InitProcess
    /\ config = NoConfig /\ redownload = EnvUnset
    /\ sha = NoText /\ shaFileRead = NoFile /\ hash = NoText
    /\ thirdParty = FALSE /\ gomaGnFile = NoFile /\ gomaDir = NoDir
    /\ gomaShaFile = NoFile /\ tmpDownload = NoArchive
    /\ expected = NoText
    /\ XcodeDir = FALSE /\ XcodePath = NoNode /\ versioned = NoVersioned
    /\ XcodeZip = NoArchive /\ unzipPath = NoScratch

InitResolver ==
    /\ InitNothingInstalled
    /\ gomaPlatform = "darwin-arm64"
    /\ yamls \in {<<a, b, c>> : a \in Sources(FoundVersions),
                               b \in Sources(FoundVersions),
                               c \in Sources(FoundVersions)}
    /\ ventura \in BOOLEAN
    /\ versionFound = NoText
    /\ resolved = <<>>
    /\ readLog = <<>>
    /\ InitBuildIdle

NextResolver == ExpectedXcodeVersion

SpecResolver == InitResolver /\ [][NextResolver]_vars

----------------------------------------------------------------------------
(* ensureGNGen on its own: one call for every platform, output directory   *)
(* and config.gen.args of the model.                                        *)

\* what out/<name>/args.gn can hold: the arguments joined by LF or by CRLF,
\* with or without a final newline, other arguments, or what gn gen wrote
ArgsFiles(args) ==
    {NoFile,
     TextFile(Join(args, LF)),
     TextFile(Join(args, CRLF)),
     TextFile(Join(args, LF) \o LF),
     TextFile(Join(args, CRLF) \o CRLF),
     TextFile(gnArgs(args)),
     TextFile(<<"c">>)}

InitGate ==
    /\ InitNothingInstalled
    /\ gomaPlatform \in ModelPlatforms
    /\ InitResolverIdle
    /\ cmd = "gngen"
    /\ trace = <<>>
    /\ \E a \in GenArgs :
          /\ options = [NoOptions EXCEPT !.args = a]
          /\ argsFile \in ArgsFiles(a)
    /\ buildfile \in BOOLEAN
    /\ cmdExit = <<>>
    /\ wrappedStatus = <<>>
    /\ ninjaOpts = <<>>
    /\ gate = <<>>
    /\ gomaLoginFile = NoFile
    /\ now = 0
    /\ authenticated = <<>>

NextGate == \E gnOk \in BOOLEAN : EnsureGNGen(gnOk)

SpecGate == InitGate /\ [][NextGate]_vars

----------------------------------------------------------------------------
(* gomaIsAuthenticated on its own: one call for every platform, login file *)
(* and answer of goma_auth.py.  The login file is inside third_party/goma, *)
(* which only exists on a supported platform.                               *)

\* what last-known-login can hold: the time of a login now, in the future,
\* one millisecond less than, exactly, and one millisecond more than twelve
\* hours ago; nothing (a write that was cut short); or other text
LoginFiles ==
    {NoFile, TextFile(<<>>), TextFile(<<"x">>),
     TextFile(DecimalText(Clock)),
     TextFile(DecimalText(Clock + 1000)),
     TextFile(DecimalText(Clock - TwelveHours + 1)),
     TextFile(DecimalText(Clock - TwelveHours)),
     TextFile(DecimalText(Clock - TwelveHours - 1))}

InitAuth ==
    /\ InitProcess
    /\ gomaPlatform \in ModelPlatforms
    /\ config = NoConfig /\ redownload = EnvUnset
    /\ sha = NoText /\ shaFileRead = NoFile /\ hash = NoText
    /\ gomaDir \in (IF isSupportedPlatform THEN {NoDir, FullDir} ELSE {NoDir})
    /\ thirdParty = gomaDir.exists
    /\ gomaGnFile = (IF gomaDir.exists THEN TextFile(gomaGnContents) ELSE NoFile)
    /\ gomaShaFile = (IF gomaDir.exists THEN TextFile(GOMA_PLATFORM_SHAS[gomaPlatform])
                      ELSE NoFile)
    /\ tmpDownload = NoArchive
    /\ expected = NoText
    /\ XcodeDir = FALSE /\ XcodePath = NoNode /\ versioned = NoVersioned
    /\ XcodeZip = NoArchive /\ unzipPath = NoScratch
    /\ InitResolverIdle
    /\ cmd = "is_authenticated"
    /\ trace = <<>>
    /\ options = NoOptions
    /\ cmdExit = <<>>
    /\ wrappedStatus = <<>>
    /\ ninjaOpts = <<>>
    /\ buildfile = FALSE
    /\ argsFile = NoFile
    /\ gate = <<>>
    /\ gomaLoginFile \in (IF gomaDir.exists THEN LoginFiles ELSE {NoFile})
    /\ now \in {Clock, Clock + 1}
    /\ authenticated = <<>>

NextAuth == \E info \in AuthInfos(gomaDir) : GomaIsAuthenticated(info)

SpecAuth == InitAuth /\ [][NextAuth]_vars

----------------------------------------------------------------------------
(* The command e build, run once on each machine of the model.              *)

\* third_party/ before the command: no goma yet, or the current bundle with
\* no login recorded, a login of now, or a login of twelve hours ago
BuildGomaLayouts(p) ==
    {[dir |-> NoDir, gn |-> NoFile, marker |-> NoFile, login |-> NoFile]}
    \cup
    (IF p \in DOMAIN GOMA_PLATFORM_SHAS
     THEN {[dir |-> FullDir, gn |-> TextFile(gomaGnContents),
            marker |-> TextFile(GOMA_PLATFORM_SHAS[p]), login |-> l]
             : l \in {NoFile, TextFile(DecimalText(Clock)),
                      TextFile(DecimalText(Clock - TwelveHours))}}
     ELSE {})

\* out/<name> before the command: nothing generated, or a build.ninja with an
\* args.gn of two arguments joined by LF or by CRLF
BuildOutLayouts ==
    {[buildfile |-> FALSE, args |-> NoFile],
     [buildfile |-> TRUE, args |-> TextFile(Join(<< <<"a">>, <<"b">> >>, LF))],
     [buildfile |-> TRUE, args |-> TextFile(Join(<< <<"a">>, <<"b">> >>, CRLF))]}

InitBuild ==
    /\ InitProcess
    /\ gomaPlatform \in ModelPlatforms
    /\ config = NoConfig /\ redownload = EnvUnset
    /\ sha = NoText /\ shaFileRead = NoFile /\ hash = NoText
    /\ thirdParty = TRUE
    /\ \E l \in BuildGomaLayouts(gomaPlatform) :
          /\ gomaDir = l.dir
          /\ gomaGnFile = l.gn
          /\ gomaShaFile = l.marker
          /\ gomaLoginFile = l.login
    /\ tmpDownload = NoArchive
    /\ expected = NoText
    /\ XcodeDir = FALSE /\ XcodePath = NoNode /\ versioned = NoVersioned
    /\ XcodeZip = NoArchive /\ unzipPath = NoScratch
    /\ InitResolverIdle
    /\ cmd = "none"
    /\ trace = <<>>
    /\ options = NoOptions
    /\ cmdExit = <<>>
    /\ wrappedStatus = <<>>
    /\ ninjaOpts = <<>>
    /\ \E o \in BuildOutLayouts :
          /\ buildfile = o.buildfile
          /\ argsFile = o.args
    /\ gate = <<>>
    /\ now = Clock
    /\ authenticated = <<>>

NextBuild ==
    \/ \E opts \in BuildOptions : BuildStart(opts)
    \/ \E status \in SpawnStatuses : LoadXcode(status)
    \/ \E gnOk \in BOOLEAN : GenForced(gnOk)
    \/ PrepareBegin
    \/ PrepareStop
    \/ PrepareDownload
    \/ PrepareExtract
    \/ AfterPrepare
    \/ \E info \in AuthInfos(gomaDir) : GomaIsAuthenticated(info)
    \/ \E status \in SpawnStatuses : Login(status)
    \/ \E start \in GomaStarts(gomaDir) : EnsureGomaStart(start)
    \/ \E ok \in BOOLEAN : DepotEnsure(ok)
    \/ \E gnOk \in BOOLEAN : EnsureGNGen(gnOk)
    \/ \E status \in {0, 1, 2} : Ninja(status)

SpecBuild == InitBuild /\ [][NextBuild]_vars

----------------------------------------------------------------------------
(* Properties *)

InSteps(l) == \E i \in DOMAIN steps : steps[i] = l

\* the handler of the current run, or of the last one when pc = "done"
InGoma == outcome # "none" /\ expected = NoText /\ sha # NoText
InXcode == outcome # "none" /\ expected # NoText

\* the early return of line 66: the sha returned with nothing removed or fetched
TreatedAsInstalled ==
    /\ InGoma
    /\ pc = "done"
    /\ outcome = "returned"
    /\ result = sha
    /\ ~InSteps("rimrafGomaDir")
    /\ ~InSteps("download")

GomaDownloadFailed == downloadStatus # <<>> /\ downloadStatus[1] # 0
GomaHashDiffers == hash # NoText /\ hash # sha
GomaExtractFailed == extractStatus # <<>> /\ extractStatus[1] # 0

\* C1: in downloadAndPrepareGoma the marker is written only as the last step
\* of a run in which every step succeeded: a run whose download exited
\* non-zero, whose hash differed from the sha or whose extraction failed never
\* writes it, and leaves no marker holding the desired sha.
C1_MarkerOnlyAfterSuccess ==
    InGoma =>
      /\ InSteps("writeSha") =>
           /\ outcome = "returned"
           /\ steps[Len(steps)] = "writeSha"
           /\ downloadStatus = <<0>> /\ hash = sha /\ extractStatus = <<0>>
      /\ (GomaDownloadFailed \/ GomaHashDiffers \/ GomaExtractFailed) =>
           /\ ~InSteps("writeSha")
           /\ ~(gomaShaFile.exists /\ Trim(gomaShaFile.data) = sha)

\* a forced redownload of an installed bundle whose extraction failed
C1_Witness ==
    /\ InGoma /\ pc = "done"
    /\ shaFileRead = TextFile(sha)
    /\ GomaExtractFailed
    /\ gomaDir.exists

\* C2: a download that exited 0 passes the checksum step iff the digest of the
\* downloaded bytes equals the expected checksum, compared without regard to
\* case; on a mismatch the run ends with the checksum failure and the
\* downloaded file is gone.  (goma: SHA-256, Xcode: md5)
C2_ChecksumDecides ==
    /\ (InGoma /\ downloadStatus = <<0>>) =>
         /\ (message = "Got hash which did not match") <=> ~EqualsIgnoreCase(hash, sha)
         /\ EqualsIgnoreCase(hash, sha) =>
              pc = "goma_extract" \/ InSteps("tar") \/ InSteps("unzip")
         /\ ~EqualsIgnoreCase(hash, sha) =>
              /\ pc = "done" /\ outcome = "exited" /\ exitCode = 1
              /\ ~tmpDownload.exists
              /\ ~InSteps("tar") /\ ~InSteps("unzip") /\ ~InSteps("writeSha")
    /\ (InXcode /\ downloadStatus = <<0>>) =>
         LET md5 == XcodeVersions[expected].md5
         IN  /\ (message = "Downloaded Xcode zip had hash which does not match")
                  <=> ~EqualsIgnoreCase(hash, md5)
             /\ EqualsIgnoreCase(hash, md5) => pc = "xcode_unzip" \/ InSteps("unzip")
             /\ ~EqualsIgnoreCase(hash, md5) =>
                  /\ pc = "done" /\ outcome = "exited" /\ exitCode = 1
                  /\ ~XcodeZip.exists
                  /\ ~InSteps("unzip") /\ ~InSteps("symlink")

C2_Witness ==
    /\ InXcode /\ downloadStatus = <<0>>
    /\ message = "Downloaded Xcode zip had hash which does not match"
    /\ hash # XcodeVersions[expected].md5

C4_Original ==
    (InGoma /\ pc = "done" /\ redownload.set) =>
      /\ ~TreatedAsInstalled
      /\ InSteps("rimrafGomaDir")
      /\ InSteps("download")

\* C4, amended: with the redownload variable set to a non-empty value the
\* early return is never taken, even when the marker equals the sha; the run
\* removes the install and starts the download unless stopping the running
\* goma (goma_ctl.py stop) fails, which ends it before anything is removed.
C4_RedownloadForces ==
    (InGoma /\ Truthy(redownload)) =>
      /\ ~TreatedAsInstalled
      /\ pc = "done" =>
           \/ InSteps("rimrafGomaDir") /\ InSteps("download")
           \/ message = "goma_ctl.py stop" /\ ~InSteps("rimrafGomaDir")

C4_Witness ==
    /\ InGoma /\ pc = "done"
    /\ Truthy(redownload)
    /\ shaFileRead = TextFile(sha)
    /\ outcome = "returned"
    /\ InSteps("download")

\* C5, as claimed: right after a run that recorded sha v, a call wanting v
\* (no redownload) is treated as installed and downloads nothing, and a call
\* wanting another sha runs the download.
C5_Original ==
    (InGoma /\ pc = "done" /\ recorded # NoText) =>
      /\ (sha = recorded /\ ~Truthy(redownload)) =>
           TreatedAsInstalled /\ ~InSteps("download")
      /\ sha # recorded => ~TreatedAsInstalled /\ InSteps("download")

\* C5, amended: right after a run that recorded sha v, a call wanting v (no
\* redownload) is treated as installed and downloads nothing; a call wanting
\* another sha is not treated as installed, and runs the download unless
\* stopping the running goma fails.
C5_MarkerRoundTrip ==
    (InGoma /\ pc = "done" /\ recorded # NoText) =>
      /\ (sha = recorded /\ ~Truthy(redownload)) =>
           TreatedAsInstalled /\ ~InSteps("download")
      /\ sha # recorded =>
           /\ ~TreatedAsInstalled
           /\ InSteps("download") \/ message = "goma_ctl.py stop"

C5_Witness ==
    /\ InGoma /\ pc = "done"
    /\ recorded # NoText
    /\ sha # recorded
    /\ InSteps("writeSha")
    /\ gomaShaFile = TextFile(sha)

ExtractionFailed == extractStatus # <<>> /\ extractStatus[1] # 0
DownloadExitedNonZero == downloadStatus # <<>> /\ downloadStatus[1] # 0

\* C6, as claimed: when the extraction tool (tar, unzip) exits non-zero the
\* run ends in a fatal extraction failure: nothing is renamed into the
\* versioned path, no link is swapped, no marker is written, and the scratch
\* directory is left in place.
C6_Original ==
    ExtractionFailed =>
      /\ ~InSteps("renameApp")
      /\ ~InSteps("symlink")
      /\ ~InSteps("writeSha")
      /\ pc = "done" =>
           /\ outcome \in {"exited", "threw"}
           /\ InXcode => unzipPath.exists

\* C7, as claimed: whether extraction succeeds or fails, no run that reached
\* the extraction leaves the downloaded archive (tmpDownload, Xcode.zip) on
\* disk when it ends.
C7_Original ==
    (pc = "done" /\ extractStatus # <<>>) =>
      /\ ~tmpDownload.exists
      /\ ~XcodeZip.exists

\* the steps of the run that follow its download
AfterDownload ==
    LET i == CHOOSE i \in DOMAIN steps : steps[i] = "download"
    IN  {steps[j] : j \in (i + 1)..Len(steps)}

\* C8: when download.js exits non-zero, the downloaded file is removed, the
\* process ends with the fatal download failure (exit code 1) and nothing
\* else runs: no checksum, no extraction, no marker write, no link change,
\* and no second download.
C8_DownloadFailureHalts ==
    DownloadExitedNonZero =>
      /\ pc = "done" /\ outcome = "exited" /\ exitCode = 1
      /\ Cardinality({i \in DOMAIN steps : steps[i] = "download"}) = 1
      /\ AfterDownload \subseteq {"rimrafTmp", "rimrafZip", "fatal"}
      /\ InGoma =>
           /\ message = "Failure while downloading goma"
           /\ ~tmpDownload.exists
           /\ ~gomaShaFile.exists
      /\ InXcode =>
           /\ message = "Failure while downloading Xcode zip"
           /\ ~XcodeZip.exists
           /\ ~versioned[expected].kind = "dir"

C8_Witness ==
    /\ InXcode /\ pc = "done"
    /\ downloadStatus = <<2>>
    /\ XcodePath.kind = "dir"

\* C9, as claimed: in the swap step, when Xcode.app is a symbolic link, the
\* link is replaced by a link to the versioned directory of the expected
\* version and no directory is removed or renamed, whatever the link pointed
\* to, a missing target included.
C9_Original ==
    [][(pc = "xcode_swap" /\ XcodePath.kind = "link") =>
         /\ XcodePath' = LinkNode(expected)
         /\ \A n \in VersionedNames :
               versioned[n].kind = "dir" => versioned'[n] = versioned[n]]_vars

\* C10, as claimed: the extraction tool writes into a fresh scratch
\* directory and never into the install location, for the goma bundle and
\* for the Xcode bundle.
C10_Original ==
    [][/\ pc = "xcode_unzip" =>
            /\ ~unzipPath.exists
            /\ versioned' = versioned
            /\ XcodePath' = XcodePath
       /\ pc = "goma_extract" => gomaDir' = gomaDir]_vars

\* C10, amended: unzip writes the Xcode bundle into tmp_unzip, which was
\* removed just before, and into nothing else; the goma bundle is extracted
\* in third_party itself and the tool creates the install location
\* third_party/goma, which was removed before the download and has no marker
\* until the extraction has succeeded.
C10_ScratchForXcodeOnly ==
    [][/\ pc = "xcode_unzip" =>
            /\ ~unzipPath.exists
            /\ versioned' = versioned
            /\ XcodePath' = XcodePath
       /\ pc = "goma_extract" =>
            /\ ~gomaDir.exists /\ ~gomaShaFile.exists
            /\ gomaDir' # gomaDir =>
                 (gomaShaFile'.exists <=> extractStatus' = <<0>>)]_vars

\* a failed extraction of the goma bundle has left part of it at third_party/goma
C10_Witness ==
    /\ InGoma /\ pc = "done"
    /\ ExtractionFailed
    /\ gomaDir.exists /\ ~gomaDir.complete

\* the first candidate that exists and in which a version is found, 0 if none
FirstMatch ==
    LET hits == {i \in DOMAIN yamls : yamls[i].exists /\ yamls[i].xcode # NoText}
    IN  IF hits = {} THEN 0 ELSE CHOOSE i \in hits : \A j \in hits : i <= j

\* C13: expectedXcodeVersion goes through build_config.yml, config.yml and
\* config/base.yml in that order: the first one that exists and matches
\* supplies the version, and nothing after it is read; with the first absent,
\* the second without a match and the third matching a known version the
\* platform accepts, the result is the third one's version.
C13_FirstMatchWins ==
    resolved # <<>> =>
      /\ FirstMatch = 0 =>
           /\ versionFound = NoText
           /\ \A i \in DOMAIN yamls :
                  yamls[i].exists <=> \E k \in DOMAIN readLog : readLog[k] = i
      /\ FirstMatch # 0 =>
           /\ versionFound = yamls[FirstMatch].xcode
           /\ readLog # <<>> /\ readLog[Len(readLog)] = FirstMatch
           /\ \A k \in DOMAIN readLog : readLog[k] <= FirstMatch
      /\ \A k \in DOMAIN readLog : k > 1 => readLog[k - 1] < readLog[k]
      /\ ( /\ ~yamls[1].exists
           /\ yamls[2].exists /\ yamls[2].xcode = NoText
           /\ yamls[3].exists /\ yamls[3].xcode \in DOMAIN XcodeVersions
           /\ (ventura => StartsWith14(yamls[3].xcode)) )
         => /\ resolved = <<yamls[3].xcode>>
            /\ readLog = <<2, 3>>

C13_Witness ==
    /\ resolved = << <<"14","3","0">> >>
    /\ ~yamls[1].exists
    /\ yamls[2].exists /\ yamls[2].xcode = NoText
    /\ yamls[3] = [exists |-> TRUE, xcode |-> <<"14","3","0">>]
    /\ ventura
    /\ readLog = <<2, 3>>

\* the platform constraint as the specification words it: macOS 13 and a
\* version below 14
RejectedByPlatform == ventura /\ versionFound # NoText /\ LeadingNumber(versionFound[1]) < 14

\* C14: expectedXcodeVersion returns the fallback, and ends nothing, when the
\* version found is rejected by the platform constraint, when no candidate
\* yields a version, and when the version found is not a key of
\* XcodeVersions; in every other case it returns the version found.
C14_FallbackCases ==
    resolved # <<>> =>
      /\ outcome = "none" /\ exitCode = 0 /\ message = ""
      /\ IF \/ RejectedByPlatform
            \/ versionFound = NoText
            \/ versionFound \notin DOMAIN XcodeVersions
         THEN resolved = <<fallbackXcode>>
         ELSE resolved = <<versionFound>>

C14_Witness ==
    /\ resolved = <<fallbackXcode>>
    /\ ventura
    /\ versionFound = <<"13","3","0">>

\* major.minor.patch as one number, for versions with parts below 100
VersionRank(v) ==
    LeadingNumber(v[1]) * 10000 + LeadingNumber(v[2]) * 100 + LeadingNumber(v[3])

\* C19: what expectedXcodeVersion returns, the fallback included, is a key of
\* XcodeVersions, and the fallback is the highest key in semantic-version
\* order; so XcodeVersions[expected] in ensureXcode is always defined.
C19_ExpectedIsKnown ==
    /\ fallbackXcode \in DOMAIN XcodeVersions
    /\ \A k \in DOMAIN XcodeVersions : VersionRank(k) <= VersionRank(fallbackXcode)
    /\ ExpectedVersions \subseteq DOMAIN XcodeVersions
    /\ resolved # <<>> =>
         /\ resolved[1] \in DOMAIN XcodeVersions
         /\ resolved[1] \in ExpectedVersions

C19_Witness ==
    /\ resolved = <<fallbackXcode>>
    /\ versionFound = <<"15","0","0">>
    /\ ~ventura

\* the version a bundle directory names in its Info.plist, as getXcodeVersion
\* reports it
VersionOfBundle(node) ==
    IF node.plist = NoText THEN Unknown
    ELSE IF Len(node.plist) = 2 THEN Append(node.plist, "0")
    ELSE node.plist

\* C17: in the swap step, an Xcode.app that is a real directory is renamed to
\* Xcode-<its own version>.app and not deleted, unless a directory of that
\* name exists already, in which case the copy at Xcode.app is removed; the
\* versioned directory of the expected version is neither removed nor
\* replaced.
C17_RealDirectoryAside ==
    [][(pc = "xcode_swap" /\ XcodePath.kind = "dir") =>
         LET own == VersionOfBundle(XcodePath)
         IN  /\ IF versioned[own].kind = "dir"
                THEN versioned' = versioned
                ELSE versioned' = [versioned EXCEPT ![own] = XcodePath]
             /\ XcodePath' = LinkNode(expected)
             /\ own # expected
             /\ versioned[expected].kind = "dir"
             /\ versioned'[expected] = versioned[expected]]_vars

\* the Xcode.app directory of 13.3 now is Xcode-13.3.0.app, and Xcode.app a
\* link to the expected 14.3.0
C17_Witness ==
    /\ InXcode /\ pc = "done" /\ outcome = "returned"
    /\ InSteps("rename")
    /\ versioned[<<"13","3","0">>] = DirNode(<<"13","3">>, TRUE)
    /\ XcodePath = LinkNode(<<"14","3","0">>)

\* C20, as claimed: whenever ensureXcode returns, Xcode.app exists and
\* resolves to a bundle whose detected version is the expected one, and a
\* bundle it extracted came from an archive with the expected md5.
C20_Original ==
    (InXcode /\ pc = "done" /\ outcome = "returned") =>
      /\ existsSync(versioned, XcodePath)
      /\ VersionOfBundle(Resolve(versioned, XcodePath)) = expected
      /\ InSteps("renameApp") => hash \in {NoText, XcodeVersions[expected].md5}

\* a text with every line ending, LF or CRLF, written as eol
RECURSIVE NormalizeEOL(_, _)
NormalizeEOL(text, eol) ==
    IF text = <<>> THEN <<>>
    ELSE IF Len(text) >= 2 /\ text[1] = "\r" /\ text[2] = "\n"
         THEN eol \o NormalizeEOL(SubSeq(text, 3, Len(text)), eol)
    ELSE IF text[1] = "\n" THEN eol \o NormalizeEOL(Tail(text), eol)
    ELSE <<text[1]>> \o NormalizeEOL(Tail(text), eol)

\* C11, as claimed: with build.ninja and args.gn both there, ensureGNGen runs
\* gn gen iff the trimmed content of args.gn differs from the trimmed desired
\* arguments once both have the platform's line endings; a file that differs
\* from the desired text in its line endings only does not run it.
C11_Original ==
    (gate # <<>> /\ gate[1].hadBuildfile /\ gate[1].hadArgs.exists) =>
      ( gate[1].runs = 1 <=>
          NormalizeEOL(Trim(gate[1].hadArgs.data), NativeEOL)
            # NormalizeEOL(Trim(Join(options.args, NativeEOL)), NativeEOL) )

\* C12: ensureGNGen runs gn gen whenever build.ninja is absent and whenever
\* args.gn is absent, whatever the desired arguments and without reading a
\* file, and never more than once in a call.
C12_GenWhenNothingGenerated ==
    gate # <<>> =>
      /\ gate[1].runs <= 1
      /\ Cardinality({i \in DOMAIN trace : trace[i] = "gn gen"}) = gate[1].runs
      /\ (~gate[1].hadBuildfile \/ ~gate[1].hadArgs.exists) =>
           /\ gate[1].runs = 1
           /\ ~gate[1].read
           /\ \A i \in DOMAIN trace : trace[i] # "readArgs"

\* build.ninja is missing while args.gn holds exactly the desired arguments
C12_Witness ==
    /\ gate # <<>>
    /\ ~gate[1].hadBuildfile
    /\ gate[1].hadArgs = TextFile(Join(options.args, NativeEOL))
    /\ Len(options.args) = 2
    /\ gate[1].runs = 1
    /\ cmd = "ninja"

\* the login file holds a timestamp less than twelve hours before the call
LoginIsRecent ==
    LET rec == authenticated[1]
    IN  /\ rec.file.exists
        /\ ParseInt(rec.file.data) # NaN
        /\ rec.at - ParseInt(rec.file.data)[1] < 43200000

\* C15: gomaIsAuthenticated returns true without running goma_auth.py iff the
\* login file exists and holds a millisecond timestamp less than 12 hours
\* old; with the file absent, unparsable or 12 hours old or more the answer is
\* the tool's alone: true iff it succeeds and reports a login, false when it
\* throws.
C15_TwelveHourWindow ==
    authenticated # <<>> =>
      LET rec == authenticated[1]
      IN  /\ (rec.value /\ ~rec.invoked) <=> LoginIsRecent
          /\ ~LoginIsRecent =>
               /\ rec.value <=> rec.info = "Login as Jane Doe"
               /\ rec.info = "throws" => ~rec.value
               /\ isSupportedPlatform => rec.invoked

\* a login made exactly twelve hours before the call is no longer valid, and
\* the tool reports a login
C15_Witness ==
    /\ authenticated # <<>>
    /\ authenticated[1].file.exists
    /\ ParseInt(authenticated[1].file.data) # NaN
    /\ authenticated[1].at - ParseInt(authenticated[1].file.data)[1] = 43200000
    /\ authenticated[1].invoked
    /\ authenticated[1].value

\* the calls of the command, in the order it made them
InTrace(call) == \E i \in DOMAIN trace : trace[i] = call

FirstCall(call) == CHOOSE i \in DOMAIN trace :
                      trace[i] = call /\ \A j \in 1..(i - 1) : trace[j] # call

LastCall(call) == CHOOSE i \in DOMAIN trace :
                     trace[i] = call /\ \A j \in (i + 1)..Len(trace) : trace[j] # call

Before(a, b) == InTrace(a) /\ InTrace(b) /\ LastCall(a) < FirstCall(b)

GomaEnabled == options.useGoma /\ options.goma # "none"

GomaCalls == {"downloadAndPrepare", "isAuthenticated", "goma_auth info",
              "goma_auth login", "recordLogin", "ensure"}

\* C16: when a wrapped tool (e load-xcode, goma_auth.py login) fails, the
\* process ends with that tool's non-zero status, or with 1 if it has none;
\* when downloadAndPrepareGoma fails, the process ends with 1; and the time
\* of a login is written only after a login that ended with status 0.
C16_Original ==
    /\ cmd = "finished" /\ wrappedStatus # <<>>
          => /\ cmdExit[1] # 0
             /\ cmdExit[1] = (IF wrappedStatus[1] = NullStatus THEN 1
                              ELSE wrappedStatus[1])
    /\ cmd = "finished" /\ outcome \in {"exited", "threw"} => cmdExit = <<1>>
    /\ \A i \in DOMAIN trace :
          trace[i] = "recordLogin" => i > 1 /\ trace[i - 1] = "goma_auth login"
    /\ cmd = "finished" /\ wrappedStatus # <<>> /\ InTrace("goma_auth login")
          => gomaLoginFile = authenticated[1].file

\* C18: ninja runs only after depot.ensure and ensureGNGen, and with goma
\* after downloadAndPrepareGoma, then (cluster mode only) the authentication,
\* then ensureGomaStart; nothing runs after a step that ended fatally.
C18_RunNinjaOrder ==
    /\ \A i \in DOMAIN trace : trace[i] = "fatal" => i = Len(trace)
    /\ InTrace("ninja") =>
          /\ FirstCall("ninja") = LastCall("ninja")
          /\ \A i \in DOMAIN trace : trace[i] = "fatal" => i > FirstCall("ninja")
          /\ Before("depot.ensure", "ensureGNGen")
          /\ Before("ensureGNGen", "ninja")
          /\ IF GomaEnabled
             THEN /\ outcome = "returned"
                  /\ Before("downloadAndPrepare", "ensure")
                  /\ Before("ensure", "depot.ensure")
                  /\ IF options.goma = "cluster"
                     THEN /\ FirstCall("downloadAndPrepare") < FirstCall("isAuthenticated")
                          /\ Before("isAuthenticated", "ensure")
                          /\ authenticated[1].value \/ Before("recordLogin", "ensure")
                     ELSE ~InTrace("isAuthenticated")
             ELSE \A c \in GomaCalls : ~InTrace(c)

C18_Witness ==
    /\ cmd = "finished"
    /\ cmdExit = <<0>>
    /\ options.goma = "cluster" /\ options.useGoma
    /\ InTrace("recordLogin")
    /\ InTrace("gn gen")
    /\ trace[Len(trace)] = "ninja"

\* runNinja skipped downloadAndPrepare, auth and ensure (part_001:46-48)
TookDisabledBranch == \A c \in GomaCalls : ~InTrace(c)

\* C21: ninja is spawned with GOMA_DISABLED in its environment exactly when
\* runNinja took the branch that skips downloadAndPrepare, auth and ensure.
C21_Original ==
    ninjaOpts # <<>> =>
        /\ TookDisabledBranch => ninjaOpts[1].GOMA_DISABLED
        /\ ~TookDisabledBranch => ~ninjaOpts[1].GOMA_DISABLED

====
